---- MODULE Spec2Model ----
(***************************************************************************)
(* HyperDbg: the e* (edit memory) command of the user-mode controller      *)
(* (hprdbgctrl/e.cpp) and the user-level process introspection of the      *)
(* hypervisor driver (hprdbghv/code/debugger/user-level/UserAccess.c).     *)
(*                                                                         *)
(* Part I models CommandEditMemory as a state machine over the token       *)
(* vector it is given.  Part II models the UserAccess* routines.           *)
(***************************************************************************)
EXTENDS Integers, Sequences, FiniteSets, TLC

(***************************************************************************)
(* Bounds of the model.                                                    *)
(***************************************************************************)
\* Largest SplittedCommand.size() explored.
MaxTokens == 5

\* The most sections of a command made of the few sections of
\* ShortSections.
MaxLongTokens == 6
\* Most entries in a load-order module list.
MaxModules == 2
\* Most calls into the UserAccess routines in one run.
MaxCalls == 2

(***************************************************************************)
(* Part I.  e.cpp                                                          *)
(*                                                                         *)
(* A std::string is a sequence of one-character strings.  A UINT64/UINT32  *)
(* value is the sequence of its base-16 digits (each 0..15), most          *)
(* significant first, without leading zeros; zero is the empty sequence.   *)
(***************************************************************************)

\* ---- characters ----
LowerHex == <<"0","1","2","3","4","5","6","7","8","9","a","b","c","d","e","f">>
UpperHex == <<"0","1","2","3","4","5","6","7","8","9","A","B","C","D","E","F">>
HexChars == {LowerHex[i] : i \in 1..16} \cup {UpperHex[i] : i \in 1..16}

HexDigitValue(c) == CHOOSE v \in 0..15 : LowerHex[v + 1] = c \/ UpperHex[v + 1] = c

RECURSIVE DropLeadingZeros(_)
DropLeadingZeros(ds) ==
    IF ds # <<>> /\ Head(ds) = 0 THEN DropLeadingZeros(Tail(ds)) ELSE ds

\* ---- the keywords ----
KW_eb  == <<"e","b">>
KW_ed  == <<"e","d">>
KW_eq  == <<"e","q">>
KW_Peb == <<"!","e","b">>
KW_Ped == <<"!","e","d">>
KW_Peq == <<"!","e","q">>
Keywords == {KW_eb, KW_ed, KW_eq, KW_Peb, KW_Ped, KW_Peq}
PidMarker == <<"p","i","d">>

\* sizeof(DEBUGGER_EDIT_MEMORY): the header of the request.
SIZEOF_DEBUGGER_EDIT_MEMORY == 40
\* sizeof(UINT64)
SizeofUINT64 == 8

\* GetCurrentProcessId() of the debugger itself (0xC1D).
CurrentProcessId == <<12, 1, 13>>

\* ---- hex notation ----
\* The digit-group separator character (ASCII 0x60), named rather than
\* written.
Backtick == "GRAVE"
NotBacktick(c) == c # Backtick

TwoCharNotations == { <<"0","x">>, <<"0","X">>, <<"\\","x">>, <<"\\","X">> }

\* e.cpp 131-137: drop one leading 0x, 0X, \x, \X (else one x or X), then
\* erase every separator.
RemoveHexNotations(Section) ==
    LET t == IF Len(Section) >= 2 /\ SubSeq(Section, 1, 2) \in TwoCharNotations
             THEN SubSeq(Section, 3, Len(Section))
             ELSE IF Len(Section) >= 1 /\ Section[1] \in {"x", "X"}
                  THEN Tail(Section)
                  ELSE Section
    IN SelectSeq(t, NotBacktick)

\* The conversion helpers of the controller (common.cpp, not among the
\* sources at hand): strip the hex notations and the separators, then read
\* the rest as a base-16 number of the given width; fail on an empty
\* string, on a character that is no hex digit, and on a number that does
\* not fit.
StripNotation(TextToConvert) ==
    LET t == IF Len(TextToConvert) >= 2 /\ SubSeq(TextToConvert, 1, 2) \in TwoCharNotations
             THEN SubSeq(TextToConvert, 3, Len(TextToConvert))
             ELSE IF Len(TextToConvert) >= 1 /\ TextToConvert[1] \in {"x", "X"}
                  THEN Tail(TextToConvert)
                  ELSE TextToConvert
    IN SelectSeq(t, NotBacktick)

ConvertString(TextToConvert, MaxDigits) ==
    LET t == StripNotation(TextToConvert)
        v == DropLeadingZeros([i \in 1..Len(t) |-> HexDigitValue(t[i])])
    IN IF t = <<>> \/ (\E i \in 1..Len(t) : t[i] \notin HexChars)
       THEN [ok |-> FALSE, val |-> <<>>]
       ELSE IF Len(v) > MaxDigits
            THEN [ok |-> FALSE, val |-> <<>>]
            ELSE [ok |-> TRUE, val |-> v]

ConvertStringToUInt64(TextToConvert) == ConvertString(TextToConvert, 16)
ConvertStringToUInt32(TextToConvert) == ConvertString(TextToConvert, 8)

\* ---- the locals of CommandEditMemory (e.cpp 33-45) ----
\* EditMemoryRequest = {0}; Address and FinalBuffer start uninitialized (the
\* Address field below is only read once SetAddress holds, see FillStructure).
InitialLocals ==
    [ SetAddress        |-> FALSE,
      SetValue          |-> FALSE,
      SetProcId         |-> FALSE,
      NextIsProcId      |-> FALSE,
      EditMemoryRequest |-> [ MemoryType         |-> "0",
                              ByteSize           |-> "0",
                              Address            |-> <<>>,
                              ProcessId          |-> <<>>,
                              CountOf64Chunks    |-> 0,
                              FinalStructureSize |-> 0 ],
      Address           |-> <<>>,
      Value             |-> <<>>,
      ProcId            |-> CurrentProcessId,
      CountOfValues     |-> 0,
      FinalSize         |-> 0,
      ValuesToEdit      |-> <<>>,
      returned          |-> FALSE,
      shown             |-> <<>> ]

\* ShowMessages(text) / CommandEditMemoryHelp(): what the user is shown.
Show(st, msg) == [st EXCEPT !.shown = Append(@, msg)]
ShowAndHelp(st, msg) == [st EXCEPT !.shown = Append(Append(@, msg), "HELP")]
Return(st) == [st EXCEPT !.returned = TRUE]

\* e.cpp 55: is this section the command itself?
IsCommandSection(Section, First) == Section = First

\* A variant of SelectCommand that takes the physical commands for virtual.
SelectCommandAlwaysVirtual(st, Section) ==
    LET set(mt, bs) == [st EXCEPT !.EditMemoryRequest.MemoryType = mt,
                                  !.EditMemoryRequest.ByteSize = bs]
    IN CASE Section \in {KW_eb, KW_Peb} -> set("EDIT_VIRTUAL_MEMORY", "EDIT_BYTE")
         [] Section \in {KW_ed, KW_Ped} -> set("EDIT_VIRTUAL_MEMORY", "EDIT_DWORD")
         [] Section \in {KW_eq, KW_Peq} -> set("EDIT_VIRTUAL_MEMORY", "EDIT_QWORD")
         [] OTHER -> Return(ShowAndHelp(st, "unknown error happened !"))

\* e.cpp 57-82: the command selects the memory type and the byte size.
SelectCommand(st, Section) ==
    LET set(mt, bs) == [st EXCEPT !.EditMemoryRequest.MemoryType = mt,
                                  !.EditMemoryRequest.ByteSize = bs]
    IN CASE Section = KW_Peb -> set("EDIT_PHYSICAL_MEMORY", "EDIT_BYTE")
         [] Section = KW_Ped -> set("EDIT_PHYSICAL_MEMORY", "EDIT_DWORD")
         [] Section = KW_Peq -> set("EDIT_PHYSICAL_MEMORY", "EDIT_QWORD")
         [] Section = KW_eb  -> set("EDIT_VIRTUAL_MEMORY", "EDIT_BYTE")
         [] Section = KW_ed  -> set("EDIT_VIRTUAL_MEMORY", "EDIT_DWORD")
         [] Section = KW_eq  -> set("EDIT_VIRTUAL_MEMORY", "EDIT_QWORD")
         [] OTHER -> Return(ShowAndHelp(st, "unknown error happened !"))

\* e.cpp 86-103: the section after a pid marker is the process id.
ReadProcId(st, Section) ==
    LET c == ConvertStringToUInt32(Section)
        s == [st EXCEPT !.NextIsProcId = FALSE]
    IN IF ~c.ok
       THEN Return(ShowAndHelp(s, "please specify a correct hex prcoess id"))
       ELSE [s EXCEPT !.ProcId = c.val]

\* e.cpp 107: is this section a pid marker?
IsPidMarker(st, Section) == ~st.SetProcId /\ Section = PidMarker

\* e.cpp 112-124: the first other section is the address.
ReadAddress(st, Section) ==
    LET c == ConvertStringToUInt64(Section)
    IN IF ~c.ok
       THEN Return(ShowAndHelp(st, "please specify a correct hex address to edit"))
       ELSE [st EXCEPT !.Address = c.val, !.SetAddress = TRUE]

\* A variant of ForbiddenLength that compares with > where the code has >=.
ForbiddenLengthOffByOne(ByteSize) ==
    CASE ByteSize = "EDIT_BYTE"  -> 4
      [] ByteSize = "EDIT_DWORD" -> 10
      [] ByteSize = "EDIT_QWORD" -> 18

\* e.cpp 142, 146, 151: the section length from which a value is refused.
ForbiddenLength(ByteSize) ==
    CASE ByteSize = "EDIT_BYTE"  -> 3
      [] ByteSize = "EDIT_DWORD" -> 9
      [] ByteSize = "EDIT_QWORD" -> 17

RangeMessage(ByteSize) ==
    CASE ByteSize = "EDIT_BYTE"  -> "please specify a byte (hex) value for 'eb' or '!eb'"
      [] ByteSize = "EDIT_DWORD" -> "please specify a dword (hex) value for 'ed' or '!ed'"
      [] ByteSize = "EDIT_QWORD" -> "please specify a qword (hex) value for 'eq' or '!eq'"

\* e.cpp 126-188: every later section is a value.
ReadValue(st, Section) ==
    LET stripped == RemoveHexNotations(Section)
        bs == st.EditMemoryRequest.ByteSize
        c == ConvertStringToUInt64(stripped)
    IN IF Len(stripped) >= ForbiddenLength(bs)
       THEN Return(Show(st, RangeMessage(bs)))
       ELSE IF ~c.ok
            THEN Return(ShowAndHelp(st,
                   "please specify a correct hex value to change the memory content"))
            ELSE [st EXCEPT !.Value = c.val,
                            !.ValuesToEdit = Append(@, c.val),
                            !.CountOfValues = @ + 1,
                            !.SetValue = TRUE]

\* e.cpp 55, 86, 107, 112, 126: which branch of the loop body a section takes.
SectionKind(st, Section, First) ==
    IF IsCommandSection(Section, First) THEN "command"
    ELSE IF st.NextIsProcId THEN "procid"
    ELSE IF IsPidMarker(st, Section) THEN "marker"
    ELSE IF ~st.SetAddress THEN "address"
    ELSE "value"

\* e.cpp 53-189: one iteration of the loop over SplittedCommand.
ProcessSection(st, Section, First) ==
    LET kind == SectionKind(st, Section, First)
    IN CASE kind = "command" -> SelectCommand(st, Section)
         [] kind = "procid"  -> ReadProcId(st, Section)
         [] kind = "marker"  -> [st EXCEPT !.NextIsProcId = TRUE]
         [] kind = "address" -> ReadAddress(st, Section)
         [] kind = "value"   -> ReadValue(st, Section)

\* e.cpp 53-189: the loop over the first n sections, left at the first return.
RECURSIVE ScanSections(_, _)
ScanSections(Sections, n) ==
    IF n = 0 THEN InitialLocals
    ELSE LET before == ScanSections(Sections, n - 1)
         IN IF before.returned THEN before
            ELSE ProcessSection(before, Sections[n], Sections[1])

\* A variant of FillStructure without the check of e.cpp 212-216.
FillStructureNoPidCheck(st, AddressRead, DeviceHandle) ==
    LET s == [st EXCEPT !.EditMemoryRequest.ProcessId = st.ProcId,
                        !.EditMemoryRequest.Address = AddressRead,
                        !.EditMemoryRequest.CountOf64Chunks = st.CountOfValues]
    IN IF ~s.SetAddress
       THEN Return(ShowAndHelp(s, "please specify a correct hex address"))
       ELSE IF ~s.SetValue
       THEN Return(ShowAndHelp(s, "please specify a correct hex value as the content to edit"))
       ELSE IF ~DeviceHandle
       THEN Return(Show(s, "Handle not found, probably the driver is not loaded."))
       ELSE s

\* e.cpp 194-221: fill the request, then refuse what the scan left unset.
\* AddressRead is what reading the local Address yields (the address once
\* SetAddress holds; otherwise the read is of an uninitialized local).
FillStructure(st, AddressRead, DeviceHandle) ==
    LET s == [st EXCEPT !.EditMemoryRequest.ProcessId = st.ProcId,
                        !.EditMemoryRequest.Address = AddressRead,
                        !.EditMemoryRequest.CountOf64Chunks = st.CountOfValues]
    IN IF ~s.SetAddress
       THEN Return(ShowAndHelp(s, "please specify a correct hex address"))
       ELSE IF ~s.SetValue
       THEN Return(ShowAndHelp(s, "please specify a correct hex value as the content to edit"))
       ELSE IF s.NextIsProcId
       THEN Return(ShowAndHelp(s, "please specify a correct hex value as the process id"))
       ELSE IF ~DeviceHandle
       THEN Return(Show(s, "Handle not found, probably the driver is not loaded."))
       ELSE s

\* A variant of ComputeFinalSize whose slots are as wide as the elements.
ComputeFinalSizeByWidth(st) ==
    LET Width == CASE st.EditMemoryRequest.ByteSize = "EDIT_BYTE"  -> 1
                   [] st.EditMemoryRequest.ByteSize = "EDIT_DWORD" -> 4
                   [] OTHER -> 8
        FinalSize == (st.CountOfValues * Width) + SIZEOF_DEBUGGER_EDIT_MEMORY
    IN [st EXCEPT !.FinalSize = FinalSize,
                  !.EditMemoryRequest.FinalStructureSize = FinalSize]

\* e.cpp 226-231: the size of the structure with its values.
ComputeFinalSize(st) ==
    LET FinalSize == (st.CountOfValues * SizeofUINT64) + SIZEOF_DEBUGGER_EDIT_MEMORY
    IN [st EXCEPT !.FinalSize = FinalSize,
                  !.EditMemoryRequest.FinalStructureSize = FinalSize]

\* e.cpp 246-257: the zeroed block of FinalSize bytes, the request copied on
\* top of it and the values after it, one UINT64 each.  The block is a
\* header and the sequence of 8-byte slots that follow it.
FillBuffer(st) ==
    LET nslots == (st.FinalSize - SIZEOF_DEBUGGER_EDIT_MEMORY) \div SizeofUINT64
        zeroed == [i \in 1..nslots |-> <<>>]
    IN [ length |-> st.FinalSize,
         header |-> st.EditMemoryRequest,
         slots  |-> [i \in 1..nslots |->
                       IF i <= Len(st.ValuesToEdit) THEN st.ValuesToEdit[i] ELSE zeroed[i]] ]

(***************************************************************************)
(* The state.                                                              *)
(***************************************************************************)
VARIABLES
    SplittedCommand,   \* the sections of the command read so far
    size,              \* SplittedCommand.size()
    pc,                \* where CommandEditMemory stands
    locals,            \* its local variables
    FinalBuffer,       \* <<>> or <<block>>: the pointer malloc returned
    heap,              \* the blocks malloc gave out that were not freed
    ioctls,            \* the DeviceIoControl calls made, in order
    g_DeviceHandle     \* whether the driver handle is there

editVars == <<SplittedCommand, size, pc, locals, FinalBuffer, heap, ioctls, g_DeviceHandle>>

VARIABLES
    process,    \* the target process: alive, and whether its object was freed
    image,      \* what the target process holds: PEBs, loader data, modules, path
    caps,       \* g_ZwQueryInformationProcess, g_PsGetProcessPeb, g_PsGetProcessWow64Process
    fn,         \* the routine the caller entered ("none" between calls)
    upc,        \* where the running routine stands
    stack,      \* the return points of the routines that called the running one
    arg,        \* the arguments of the call
    frame,      \* locals of the running routines
    out,        \* what the caller handed in to be written: ProcessImageName, *Peb, *Is32Bit
    ret,        \* what the last finished call returned
    res,        \* what the driver holds: references, handles, pool blocks
    cnt,        \* per call: how often each acquisition and release ran
    log,        \* the module lines logged in this call
    calls       \* calls made so far

userVars == <<process, image, caps, fn, upc, stack, arg, frame, out, ret, res, cnt, log, calls>>

vars == <<editVars, userVars>>

\* ---- the sections a command is made of in this model ----
Digits2  == <<"9","0">>
Digits3  == <<"1","2","3">>
Digits8  == <<"1","2","3","4","5","6","7","8">>
Digits16 == <<"f","E","d","C","b","A","9","8","7","6","5","4","3","2","1","0">>
T_zz   == <<"z","z">>
T_ex   == <<"e","x">>
D_sep  == <<"9", Backtick, "0">>
D_0X3  == <<"0","X">> \o Digits3
D_bx8  == <<"\\","x">> \o SubSeq(Digits8, 1, 4) \o <<Backtick>> \o SubSeq(Digits8, 5, 8)
D_bX9  == <<"\\","X">> \o Digits8 \o <<"9">>
D_x16  == <<"x">> \o Digits16
D_X17  == <<"X">> \o Digits16 \o <<"1">>

FirstSections == Keywords \cup {T_ex}
LaterSections(First) ==
    { PidMarker, T_zz, D_sep, D_0X3, D_bx8, D_bX9, D_x16, D_X17,
      First, <<"0","x">> \o First }

\* Fewer sections, for longer commands: the pid marker, two hex numbers and
\* the command word.
ShortSections(First) == { PidMarker, D_sep, D_0X3, First }

\* What an uninitialized UINT64 local may hold.
StackGarbage == { <<>>, <<13, 14, 10, 13>> }

(***************************************************************************)
(* CommandEditMemory, step by step.  The vector is drawn section by        *)
(* section as the loop reaches it; its size is drawn at the start, since   *)
(* line 47 reads it before the loop.                                       *)
(***************************************************************************)
InitEditOfSize(Sizes) ==
    /\ size \in Sizes
    /\ \E First \in FirstSections : SplittedCommand = <<First>>
    /\ pc = "entry"
    /\ locals = InitialLocals
    /\ FinalBuffer = <<>>
    /\ heap = 0
    /\ ioctls = <<>>
    /\ g_DeviceHandle \in BOOLEAN

InitEditVars == InitEditOfSize(1..MaxTokens)
InitEditLongVars == InitEditOfSize(1..MaxLongTokens)

\* e.cpp 47-51
CheckArgumentCount ==
    /\ pc = "entry"
    /\ IF size <= 2
       THEN /\ locals' = Return(ShowAndHelp(locals, "incorrect use of 'e*'"))
            /\ pc' = "returned"
       ELSE /\ locals' = locals
            /\ pc' = "command"
    /\ UNCHANGED <<SplittedCommand, size, FinalBuffer, heap, ioctls, g_DeviceHandle>>
    /\ UNCHANGED userVars

\* e.cpp 53-85, first iteration: the section is SplittedCommand.at(0).
ScanCommand ==
    /\ pc = "command"
    /\ locals' = ProcessSection(locals, SplittedCommand[1], SplittedCommand[1])
    /\ pc' = IF locals'.returned THEN "returned" ELSE "loop"
    /\ UNCHANGED <<SplittedCommand, size, FinalBuffer, heap, ioctls, g_DeviceHandle>>
    /\ UNCHANGED userVars

\* e.cpp 53-189, a later iteration, its section drawn from Sections.
ScanSectionOf(Sections) ==
    /\ pc = "loop"
    /\ Len(SplittedCommand) < size
    /\ \E Section \in Sections :
         /\ SplittedCommand' = Append(SplittedCommand, Section)
         /\ locals' = ProcessSection(locals, Section, SplittedCommand[1])
    /\ pc' = IF locals'.returned THEN "returned" ELSE "loop"
    /\ UNCHANGED <<size, FinalBuffer, heap, ioctls, g_DeviceHandle>>
    /\ UNCHANGED userVars

ScanSection ==
    /\ pc = "loop"
    /\ ScanSectionOf(LaterSections(SplittedCommand[1]))

ScanShortSection ==
    /\ pc = "loop"
    /\ ScanSectionOf(ShortSections(SplittedCommand[1]))

\* e.cpp 194-221
CheckRequest ==
    /\ pc = "loop"
    /\ Len(SplittedCommand) = size
    /\ \E AddressRead \in (IF locals.SetAddress THEN {locals.Address} ELSE StackGarbage) :
         locals' = FillStructure(locals, AddressRead, g_DeviceHandle)
    /\ pc' = IF locals'.returned THEN "returned" ELSE "allocate"
    /\ UNCHANGED <<SplittedCommand, size, FinalBuffer, heap, ioctls, g_DeviceHandle>>
    /\ UNCHANGED userVars

\* e.cpp 226-257; malloc may fail.
AllocateBuffer ==
    /\ pc = "allocate"
    /\ \E Allocated \in BOOLEAN :
         LET s == ComputeFinalSize(locals)
         IN IF ~Allocated
            THEN /\ locals' = Return(Show(s, "unable to allocate memory"))
                 /\ pc' = "returned"
                 /\ UNCHANGED <<FinalBuffer, heap>>
            ELSE /\ locals' = s
                 /\ FinalBuffer' = <<FillBuffer(s)>>
                 /\ heap' = heap + 1
                 /\ pc' = "send"
    /\ UNCHANGED <<SplittedCommand, size, ioctls, g_DeviceHandle>>
    /\ UNCHANGED userVars

\* e.cpp 259-273; the driver may refuse the request.
SendRequest ==
    /\ pc = "send"
    /\ ioctls' = Append(ioctls, [ IoControlCode |-> "IOCTL_DEBUGGER_EDIT_MEMORY",
                                  InBuffer      |-> FinalBuffer[1],
                                  InBufferSize  |-> locals.FinalSize ])
    /\ \E Status \in BOOLEAN :
         locals' = IF Status THEN Return(locals)
                   ELSE Return(Show(locals, "Ioctl failed with code"))
    /\ pc' = "returned"
    /\ UNCHANGED <<SplittedCommand, size, FinalBuffer, heap, g_DeviceHandle>>
    /\ UNCHANGED userVars

NextEdit ==
    \/ CheckArgumentCount
    \/ ScanCommand
    \/ ScanSection
    \/ CheckRequest
    \/ AllocateBuffer
    \/ SendRequest

NextEditLong ==
    \/ CheckArgumentCount
    \/ ScanCommand
    \/ ScanShortSection
    \/ CheckRequest
    \/ AllocateBuffer
    \/ SendRequest


(***************************************************************************)
(* Part II.  UserAccess.c                                                  *)
(*                                                                         *)
(* One target process.  Its EPROCESS object lives while the process is     *)
(* alive or somebody holds a reference or a handle to it; the process may  *)
(* exit at any moment.  The routines run one call at a time, step by step. *)
(***************************************************************************)
TargetPid == 4
NoSuchPid == 0

SizeofUnicodeString == 16
SizeofWchar == 2
\* The range of UNICODE_STRING.Length and .MaximumLength (USHORT).
UshortRange == 65536

\* The image path of the target, in bytes (two per character).
ImagePathBytes == <<"a", "nul", "b", "nul">>

\* What ZwQueryInformationProcess(ProcessImageFileName) asks for: the
\* UNICODE_STRING, the path and its terminator.
RequiredLength == SizeofUnicodeString + Len(ImagePathBytes) + SizeofWchar

\* The capacities a caller declares.
Capacities == { Len(ImagePathBytes), RequiredLength - SizeofUnicodeString, 512,
                UshortRange, UshortRange + 512 }

\* ---- the loader data of the target ----
\* Entry i of the native list (LDR_DATA_TABLE_ENTRY) and of the 32-bit list
\* (LDR_DATA_TABLE_ENTRY32), i in 1..N; node 0 is the list head in the
\* PEB_LDR_DATA.
Entry64(i) == [ DllBase |-> 4096 * i, EntryPoint |-> 4096 * i + 16,
                BaseDllName |-> <<"m", i>>, FullDllName |-> <<"dir", "m", i>> ]
Entry32(i) == [ DllBase |-> 1024 * i, EntryPoint |-> 1024 * i + 8,
                BaseDllName |-> <<"w", i>>, FullDllName |-> <<"dir32", "w", i>> ]

\* List->Flink in a circular list of N entries and the head.
Blink(List, N) == (List + N) % (N + 1)
Flink(List, N) == (List + 1) % (N + 1)
ListHead == 0

\* What the target may hold: its 32-bit PEB (a WOW64 process has one), its
\* native PEB, the loader data the PEB points to, and the modules listed.
Images ==
    { [ Wow64Process |-> w, Peb |-> p, Ldr |-> TRUE, Modules |-> n ] :
        w \in BOOLEAN, p \in BOOLEAN, n \in 0..MaxModules }
    \cup
    { [ Wow64Process |-> w, Peb |-> p, Ldr |-> FALSE, Modules |-> 0 ] :
        w \in BOOLEAN, p \in BOOLEAN }

\* The caller's output locations as handed in.
EntryOutputs ==
    [ ProcessImageName |-> [ Length |-> 7, MaximumLength |-> 7, Buffer |-> <<>> ],
      Peb              |-> "caller's",
      Is32Bit          |-> "caller's" ]

ZeroCounts ==
    [ lookups |-> 0, derefs |-> 0, opens |-> 0, attaches |-> 0, detaches |-> 0,
      scratchAllocs |-> 0, scratchFrees |-> 0, outAllocs |-> 0, is32Writes |-> 0,
      derefdUse |-> 0, freedUse |-> 0 ]

InitialFrame ==
    [ ReturnedLength |-> 0, BufferLength |-> 0, Buffer |-> <<>>,
      Is32Bit |-> "uninitialized", iwResult |-> FALSE, wkResult |-> FALSE,
      iwHeld |-> FALSE, pmHeld |-> FALSE,
      wkProc |-> "none", Peb |-> FALSE, Ldr |-> FALSE, N |-> 0, List |-> 0,
      Garbage |-> FALSE ]

InitUserVars ==
    /\ process = [ alive |-> TRUE, freed |-> FALSE ]
    /\ image \in Images
    /\ caps \in [ {"ZwQueryInformationProcess", "PsGetProcessPeb", "PsGetProcessWow64Process"}
                  -> BOOLEAN ]
    /\ fn = "none"
    /\ upc = "idle"
    /\ stack = <<>>
    /\ arg = [ ProcessId |-> TargetPid, Size |-> 512 ]
    /\ frame = InitialFrame
    /\ out = EntryOutputs
    /\ ret = "none"
    /\ res = [ refs |-> 0, handles |-> 0, callerRef |-> FALSE, scratch |-> 0, outBlocks |-> 0 ]
    /\ cnt = ZeroCounts
    /\ log = <<>>
    /\ calls = 0

\* The state of the part that is not running.
IdleUser ==
    /\ process = [ alive |-> TRUE, freed |-> FALSE ]
    /\ image = [ Wow64Process |-> FALSE, Peb |-> TRUE, Ldr |-> TRUE, Modules |-> 0 ]
    /\ caps = [ c \in {"ZwQueryInformationProcess", "PsGetProcessPeb", "PsGetProcessWow64Process"}
                |-> TRUE ]
    /\ fn = "none"
    /\ upc = "idle"
    /\ stack = <<>>
    /\ arg = [ ProcessId |-> TargetPid, Size |-> 512 ]
    /\ frame = InitialFrame
    /\ out = EntryOutputs
    /\ ret = "none"
    /\ res = [ refs |-> 0, handles |-> 0, callerRef |-> FALSE, scratch |-> 0, outBlocks |-> 0 ]
    /\ cnt = ZeroCounts
    /\ log = <<>>
    /\ calls = 0

IdleEdit ==
    /\ size = 1
    /\ SplittedCommand = <<KW_eb>>
    /\ pc = "returned"
    /\ locals = InitialLocals
    /\ FinalBuffer = <<>>
    /\ heap = 0
    /\ ioctls = <<>>
    /\ g_DeviceHandle = FALSE

\* ---- the capabilities ----
\* g_X == NULL, for the three function pointers the driver resolves at load.
NeverNull(Capability) == FALSE
IsNull(Capability) == ~caps[Capability]

\* ---- the object manager ----
\* The object is freed once the process is gone and nothing holds it.
Unheld(r) == r.refs = 0 /\ r.handles = 0 /\ ~r.callerRef
AfterRelease(p, r) == [p EXCEPT !.freed = p.freed \/ (~p.alive /\ Unheld(r))]

\* PsLookupProcessByProcessId succeeds for the id of a live process.
LookupSucceeds(ProcessId) == ProcessId = TargetPid /\ process.alive

\* The target process exits while the driver is at work or idle.
ProcessExit ==
    /\ process.alive
    /\ process' = AfterRelease([process EXCEPT !.alive = FALSE], res)
    /\ UNCHANGED <<image, caps, fn, upc, stack, arg, frame, out, ret, res, cnt, log, calls>>
    /\ UNCHANGED editVars

\* ---- calling and returning ----
Enter(routine, first, ProcessId, Size) ==
    /\ upc = "idle"
    /\ calls < MaxCalls
    /\ fn' = routine
    /\ upc' = first
    /\ arg' = [ ProcessId |-> ProcessId, Size |-> Size ]
    /\ frame' = InitialFrame
    /\ out' = EntryOutputs
    /\ ret' = "none"
    /\ cnt' = ZeroCounts
    /\ log' = <<>>
    /\ calls' = calls + 1
    /\ stack' = <<>>

\* return Value; from the routine the caller entered.
ReturnToCaller(Value) ==
    /\ upc' = "idle"
    /\ ret' = IF Value THEN "TRUE" ELSE "FALSE"
    /\ UNCHANGED <<fn, arg, calls, stack>>

Walkers == {"UserAccessPrintLoadedModulesX64", "UserAccessPrintLoadedModulesX86"}

CallImagePath ==
    /\ \E ProcessId \in {TargetPid, NoSuchPid}, Size \in Capacities :
         Enter("UserAccessAllocateAndGetImagePathFromProcessId", "h_lookup", ProcessId, Size)
    /\ UNCHANGED <<process, image, caps, res>>
    /\ UNCHANGED editVars

CallGetPeb ==
    /\ \E ProcessId \in {TargetPid, NoSuchPid} :
         Enter("UserAccessGetPebFromProcessId", "h_lookup", ProcessId, 0)
    /\ UNCHANGED <<process, image, caps, res>>
    /\ UNCHANGED editVars

\* UserAccess.c 45-47, 59-65 and 186-188, 200-206
LookupForHandle ==
    /\ upc = "h_lookup"
    /\ IF LookupSucceeds(arg.ProcessId)
       THEN /\ res' = [res EXCEPT !.refs = @ + 1]
            /\ cnt' = [cnt EXCEPT !.lookups = @ + 1]
            /\ upc' = "h_open"
            /\ UNCHANGED <<fn, arg, calls, stack, ret>>
       ELSE /\ ReturnToCaller(FALSE)
            /\ UNCHANGED <<res, cnt>>
    /\ UNCHANGED <<process, image, caps, frame, out, log>>
    /\ UNCHANGED editVars

\* UserAccess.c 49-55 and 190-196; ObOpenObjectByPointer may fail.
OpenProcessObject ==
    /\ upc = "h_open"
    /\ \E Opened \in BOOLEAN :
         IF Opened
         THEN /\ res' = [res EXCEPT !.handles = @ + 1]
              /\ cnt' = [cnt EXCEPT !.opens = @ + 1]
              /\ upc' = "h_deref"
              /\ UNCHANGED <<fn, arg, calls, stack, ret>>
         ELSE /\ ReturnToCaller(FALSE)
              /\ UNCHANGED <<res, cnt>>
    /\ UNCHANGED <<process, image, caps, frame, out, log>>
    /\ UNCHANGED editVars

\* UserAccess.c 57 and 198
DereferenceAfterOpen ==
    /\ upc = "h_deref"
    /\ res' = [res EXCEPT !.refs = @ - 1]
    /\ cnt' = [cnt EXCEPT !.derefs = @ + 1]
    /\ process' = AfterRelease(process, res')
    /\ upc' = "h_capability"
    /\ UNCHANGED <<image, caps, fn, stack, arg, frame, out, ret, log, calls>>
    /\ UNCHANGED editVars

\* UserAccess.c 67-70 and 208-211
CheckQueryCapability ==
    /\ upc = "h_capability"
    /\ IF IsNull("ZwQueryInformationProcess")
       THEN ReturnToCaller(FALSE)
       ELSE /\ upc' = IF fn = "UserAccessGetPebFromProcessId" THEN "gp_query" ELSE "ip_probe"
            /\ UNCHANGED <<fn, arg, calls, stack, ret>>
    /\ UNCHANGED <<process, image, caps, frame, out, res, cnt, log>>
    /\ UNCHANGED editVars

\* UserAccess.c 216-230; the query may fail.
QueryBasicInformation ==
    /\ upc = "gp_query"
    /\ \E Succeeded \in BOOLEAN :
         IF Succeeded
         THEN /\ out' = [out EXCEPT !.Peb = IF image.Peb THEN "PebBaseAddress" ELSE "NULL"]
              /\ ReturnToCaller(TRUE)
         ELSE /\ out' = out
              /\ ReturnToCaller(FALSE)
    /\ UNCHANGED <<process, image, caps, frame, res, cnt, log>>
    /\ UNCHANGED editVars

\* UserAccess.c 75-87: the size probe; anything but the length mismatch fails.
ProbeImageNameLength ==
    /\ upc = "ip_probe"
    /\ \E Status \in {"STATUS_INFO_LENGTH_MISMATCH", "STATUS_UNSUCCESSFUL"} :
         IF Status # "STATUS_INFO_LENGTH_MISMATCH"
         THEN /\ ReturnToCaller(FALSE)
              /\ frame' = frame
         ELSE /\ frame' = [frame EXCEPT !.ReturnedLength = RequiredLength]
              /\ upc' = "ip_capacity"
              /\ UNCHANGED <<fn, arg, calls, stack, ret>>
    /\ UNCHANGED <<process, image, caps, out, res, cnt, log>>
    /\ UNCHANGED editVars

\* UserAccess.c 93: BufferLength = ReturnedLength - sizeof(UNICODE_STRING)
ComputeBufferLength(ReturnedLength) == ReturnedLength - SizeofUnicodeString

\* UserAccess.c 95: is the declared capacity too small?
CapacityTooSmall(Size, BufferLength) == Size < BufferLength

\* UserAccess.c 93-98
CheckCapacity ==
    /\ upc = "ip_capacity"
    /\ LET BufferLength == ComputeBufferLength(frame.ReturnedLength)
       IN /\ frame' = [frame EXCEPT !.BufferLength = BufferLength]
          /\ IF CapacityTooSmall(arg.Size, BufferLength)
             THEN ReturnToCaller(FALSE)
             ELSE /\ upc' = "ip_scratch"
                  /\ UNCHANGED <<fn, arg, calls, stack, ret>>
    /\ UNCHANGED <<process, image, caps, out, res, cnt, log>>
    /\ UNCHANGED editVars

\* UserAccess.c 103-108; the pool may be exhausted.
AllocateScratch ==
    /\ upc = "ip_scratch"
    /\ \E Allocated \in BOOLEAN :
         IF Allocated
         THEN /\ frame' = [frame EXCEPT !.Buffer = <<[ size |-> frame.ReturnedLength, ImageName |-> <<>> ]>>]
              /\ res' = [res EXCEPT !.scratch = @ + 1]
              /\ cnt' = [cnt EXCEPT !.scratchAllocs = @ + 1]
              /\ upc' = "ip_query"
              /\ UNCHANGED <<fn, arg, calls, stack, ret>>
         ELSE /\ ReturnToCaller(FALSE)
              /\ UNCHANGED <<frame, res, cnt>>
    /\ UNCHANGED <<process, image, caps, out, log>>
    /\ UNCHANGED editVars

\* UserAccess.c 113-119, 152-160: the query into the scratch buffer; on
\* failure the scratch buffer is freed.
QueryImageName ==
    /\ upc = "ip_query"
    /\ \E Succeeded \in BOOLEAN :
         IF Succeeded
         THEN /\ frame' = [frame EXCEPT !.Buffer[1].ImageName =
                          <<[ Length        |-> Len(ImagePathBytes),
                              MaximumLength |-> Len(ImagePathBytes) + SizeofWchar,
                              Buffer        |-> ImagePathBytes ]>>]
              /\ upc' = "ip_output"
              /\ UNCHANGED <<fn, arg, calls, stack, ret, res, cnt>>
         ELSE /\ res' = [res EXCEPT !.scratch = @ - 1]
              /\ cnt' = [cnt EXCEPT !.scratchFrees = @ + 1]
              /\ frame' = frame
              /\ ReturnToCaller(FALSE)
    /\ UNCHANGED <<process, image, caps, out, log>>
    /\ UNCHANGED editVars

\* UserAccess.c 130: the capacity as the USHORT MaximumLength holds it.
StoredMaximumLength(Size) == Size % UshortRange

\* RtlCopyUnicodeString (UserAccess.c 143): as many bytes of the source as
\* the destination's MaximumLength admits, into a zeroed block.  A block is
\* its size and the bytes written at its start; the rest is zero.
CopyUnicodeString(Destination, Source) ==
    LET n == IF Source.Length <= Destination.MaximumLength
             THEN Source.Length ELSE Destination.MaximumLength
    IN [Destination EXCEPT !.Length = n,
                           !.Buffer = <<[ size  |-> Destination.Buffer[1].size,
                                          bytes |-> SubSeq(Source.Buffer, 1, n) ]>>]

\* UserAccess.c 124-150; the pool may be exhausted.
FillOutput ==
    /\ upc = "ip_output"
    /\ \E Allocated \in BOOLEAN :
         LET ImageName == frame.Buffer[1].ImageName[1]
             named == [ Length        |-> 0,
                        MaximumLength |-> StoredMaximumLength(arg.Size),
                        Buffer        |-> IF Allocated
                                          THEN <<[ size |-> arg.Size, bytes |-> <<>> ]>>
                                          ELSE <<>> ]
         IN IF ~Allocated
            THEN /\ out' = [out EXCEPT !.ProcessImageName = named]
                 /\ ReturnToCaller(FALSE)
                 /\ UNCHANGED <<res, cnt>>
            ELSE /\ out' = [out EXCEPT !.ProcessImageName = CopyUnicodeString(named, ImageName)]
                 /\ res' = [res EXCEPT !.scratch = @ - 1, !.outBlocks = @ + 1]
                 /\ cnt' = [cnt EXCEPT !.scratchFrees = @ + 1, !.outAllocs = @ + 1]
                 /\ ReturnToCaller(TRUE)
    /\ UNCHANGED <<process, image, caps, frame, log>>
    /\ UNCHANGED editVars


\* ---- reading through a process pointer ----
\* What a read of the process object yields: the field while the object is
\* there, anything once it was freed.
ReadOfObject(Field) == IF process.freed THEN BOOLEAN ELSE {Field}

\* Account for a use of the process pointer: after its reference was given
\* back, and after the object itself was freed.
UseOfFreed(c) == [c EXCEPT !.freedUse = @ + (IF process.freed THEN 1 ELSE 0)]
NoteUse(c, Held) ==
    [UseOfFreed(c) EXCEPT !.derefdUse = @ + (IF Held THEN 0 ELSE 1)]

\* return Value; from UserAccessIsWow64Process or a walker, to the caller or
\* to UserAccessPrintLoadedModules.
ReturnFrom(Value, Slot) ==
    IF stack = <<>>
    THEN /\ upc' = "idle"
         /\ ret' = IF Value THEN "TRUE" ELSE "FALSE"
         /\ frame' = frame
         /\ UNCHANGED <<fn, arg, calls, stack>>
    ELSE /\ upc' = Head(stack)
         /\ stack' = Tail(stack)
         /\ frame' = [frame EXCEPT ![Slot] = Value]
         /\ UNCHANGED <<fn, arg, calls, ret>>

CallIsWow64Process ==
    /\ \E ProcessId \in {TargetPid, NoSuchPid} :
         Enter("UserAccessIsWow64Process", "iw_lookup", ProcessId, 0)
    /\ UNCHANGED <<process, image, caps, res>>
    /\ UNCHANGED editVars

CallPrintLoadedModules ==
    /\ \E ProcessId \in {TargetPid, NoSuchPid} :
         Enter("UserAccessPrintLoadedModules", "pm_lookup", ProcessId, 0)
    /\ UNCHANGED <<process, image, caps, res>>
    /\ UNCHANGED editVars

\* A caller that holds a reference to the live target calls a walker.
CallWalker ==
    /\ process.alive
    /\ \E W \in Walkers : Enter(W, "wk_capability", TargetPid, 0)
    /\ res' = [res EXCEPT !.callerRef = TRUE]
    /\ UNCHANGED <<process, image, caps>>
    /\ UNCHANGED editVars

\* UserAccess.c 393-399
LookupInIsWow64 ==
    /\ upc = "iw_lookup"
    /\ IF LookupSucceeds(arg.ProcessId)
       THEN /\ res' = [res EXCEPT !.refs = @ + 1]
            /\ cnt' = [cnt EXCEPT !.lookups = @ + 1]
            /\ frame' = [frame EXCEPT !.iwHeld = TRUE]
            /\ upc' = "iw_deref"
            /\ UNCHANGED <<fn, arg, calls, stack, ret>>
       ELSE /\ ReturnFrom(FALSE, "iwResult")
            /\ UNCHANGED <<res, cnt>>
    /\ UNCHANGED <<process, image, caps, out, log>>
    /\ UNCHANGED editVars

\* UserAccess.c 401
DereferenceInIsWow64 ==
    /\ upc = "iw_deref"
    /\ res' = [res EXCEPT !.refs = @ - 1]
    /\ cnt' = [cnt EXCEPT !.derefs = @ + 1]
    /\ frame' = [frame EXCEPT !.iwHeld = FALSE]
    /\ process' = AfterRelease(process, res')
    /\ upc' = "iw_capability"
    /\ UNCHANGED <<image, caps, fn, stack, arg, out, ret, log, calls>>
    /\ UNCHANGED editVars

\* UserAccess.c 403-406
CheckArchitectureCapabilities ==
    /\ upc = "iw_capability"
    /\ IF IsNull("PsGetProcessWow64Process") \/ IsNull("PsGetProcessPeb")
       THEN ReturnFrom(FALSE, "iwResult")
       ELSE /\ upc' = "iw_wow64"
            /\ frame' = frame
            /\ UNCHANGED <<fn, arg, calls, stack, ret>>
    /\ UNCHANGED <<process, image, caps, out, res, cnt, log>>
    /\ UNCHANGED editVars

\* *Is32Bit = Value: the caller's BOOLEAN, or the local of
\* UserAccessPrintLoadedModules.
WriteIs32Bit(Value) ==
    IF stack = <<>>
    THEN /\ out' = [out EXCEPT !.Is32Bit = IF Value THEN "TRUE" ELSE "FALSE"]
         /\ upc' = "idle"
         /\ ret' = "TRUE"
         /\ frame' = frame
         /\ UNCHANGED <<fn, arg, calls, stack>>
    ELSE /\ out' = out
         /\ upc' = Head(stack)
         /\ stack' = Tail(stack)
         /\ frame' = [frame EXCEPT !.iwResult = TRUE,
                                   !.Is32Bit = IF Value THEN "TRUE" ELSE "FALSE"]
         /\ UNCHANGED <<fn, arg, calls, ret>>

\* UserAccess.c 408-417
QueryWow64Process ==
    /\ upc = "iw_wow64"
    /\ \E Wow64 \in ReadOfObject(image.Wow64Process) :
         IF Wow64
         THEN /\ WriteIs32Bit(TRUE)
              /\ cnt' = [NoteUse(cnt, frame.iwHeld) EXCEPT !.is32Writes = @ + 1]
         ELSE /\ upc' = "iw_peb"
              /\ cnt' = NoteUse(cnt, frame.iwHeld)
              /\ UNCHANGED <<fn, arg, calls, stack, ret, frame, out>>
    /\ UNCHANGED <<process, image, caps, res, log>>
    /\ UNCHANGED editVars

\* UserAccess.c 418-430
QueryNativePeb ==
    /\ upc = "iw_peb"
    /\ \E Peb \in ReadOfObject(image.Peb) :
         IF Peb
         THEN /\ WriteIs32Bit(FALSE)
              /\ cnt' = [NoteUse(cnt, frame.iwHeld) EXCEPT !.is32Writes = @ + 1]
         ELSE /\ ReturnFrom(FALSE, "iwResult")
              /\ cnt' = NoteUse(cnt, frame.iwHeld)
              /\ out' = out
    /\ UNCHANGED <<process, image, caps, res, log>>
    /\ UNCHANGED editVars

\* UserAccess.c 448-454
LookupInPrintLoadedModules ==
    /\ upc = "pm_lookup"
    /\ IF LookupSucceeds(arg.ProcessId)
       THEN /\ res' = [res EXCEPT !.refs = @ + 1]
            /\ cnt' = [cnt EXCEPT !.lookups = @ + 1]
            /\ frame' = [frame EXCEPT !.pmHeld = TRUE]
            /\ upc' = "pm_deref"
            /\ UNCHANGED <<fn, arg, calls, stack, ret>>
       ELSE /\ ReturnToCaller(FALSE)
            /\ UNCHANGED <<res, cnt, frame>>
    /\ UNCHANGED <<process, image, caps, out, log>>
    /\ UNCHANGED editVars

\* UserAccess.c 456
DereferenceInPrintLoadedModules ==
    /\ upc = "pm_deref"
    /\ res' = [res EXCEPT !.refs = @ - 1]
    /\ cnt' = [cnt EXCEPT !.derefs = @ + 1]
    /\ frame' = [frame EXCEPT !.pmHeld = FALSE]
    /\ process' = AfterRelease(process, res')
    /\ upc' = "pm_detect"
    /\ UNCHANGED <<image, caps, fn, stack, arg, out, ret, log, calls>>
    /\ UNCHANGED editVars

\* UserAccess.c 461: UserAccessIsWow64Process(ProcessId, &Is32Bit)
DetectArchitecture ==
    /\ upc = "pm_detect"
    /\ stack' = <<"pm_detected">> \o stack
    /\ upc' = "iw_lookup"
    /\ UNCHANGED <<process, image, caps, fn, arg, frame, out, ret, res, cnt, log, calls>>
    /\ UNCHANGED editVars

\* UserAccess.c 461-488: the walker the detected width selects.
SelectWalker ==
    /\ upc = "pm_detected"
    /\ IF ~frame.iwResult
       THEN /\ ReturnToCaller(FALSE)
            /\ frame' = frame
       ELSE /\ stack' = <<"pm_walked">> \o stack
            /\ upc' = "wk_capability"
            /\ frame' = [frame EXCEPT !.wkProc =
                            IF frame.Is32Bit = "TRUE"
                            THEN "UserAccessPrintLoadedModulesX86"
                            ELSE "UserAccessPrintLoadedModulesX64"]
            /\ UNCHANGED <<fn, arg, calls, ret>>
    /\ UNCHANGED <<process, image, caps, out, res, cnt, log>>
    /\ UNCHANGED editVars

\* UserAccess.c 474-490
ReturnWalkerResult ==
    /\ upc = "pm_walked"
    /\ ReturnToCaller(frame.wkResult)
    /\ UNCHANGED <<process, image, caps, frame, out, res, cnt, log>>
    /\ UNCHANGED editVars


\* ---- the module walkers ----
\* The walker that runs, and whether its Proc is referenced while it runs.
Walker == IF fn \in Walkers THEN fn ELSE frame.wkProc
ProcHeld == IF fn \in Walkers THEN res.callerRef ELSE frame.pmHeld

\* KeUnstackDetachProcess (UserAccess.c 269, 290, 331, 373), as counted.
NoDetach(c) == c
Detach(c) == [c EXCEPT !.detaches = @ + 1]

\* The capability a walker calls to get its PEB, and what that call reads.
PebCapability(W) ==
    IF W = "UserAccessPrintLoadedModulesX64" THEN "PsGetProcessPeb"
                                             ELSE "PsGetProcessWow64Process"
PebOf(W) ==
    IF W = "UserAccessPrintLoadedModulesX64" THEN image.Peb ELSE image.Wow64Process

\* The line Log prints for entry i (UserAccess.c 283-287 and 355-370): the
\* 32-bit fields are widened to 64 bits, which keeps their value.
ModuleRecord(W, i) ==
    LET Entry == IF W = "UserAccessPrintLoadedModulesX64" THEN Entry64(i) ELSE Entry32(i)
    IN [ Base |-> Entry.DllBase, EntryPoint |-> Entry.EntryPoint,
         Module |-> Entry.BaseDllName, Path |-> Entry.FullDllName ]

\* What is printed for memory that is no list entry.
GarbageRecord == [ Base |-> 0, EntryPoint |-> 0, Module |-> <<>>, Path |-> <<>> ]

\* return Value; from a walker.  A caller that called the walker itself
\* gives its reference back.
ReturnFromWalker(Value) ==
    IF stack = <<>>
    THEN /\ upc' = "idle"
         /\ ret' = IF Value THEN "TRUE" ELSE "FALSE"
         /\ res' = [res EXCEPT !.callerRef = FALSE]
         /\ process' = AfterRelease(process, res')
         /\ frame' = [frame EXCEPT !.wkResult = Value]
         /\ UNCHANGED <<fn, arg, calls, stack>>
    ELSE /\ upc' = Head(stack)
         /\ stack' = Tail(stack)
         /\ frame' = [frame EXCEPT !.wkResult = Value]
         /\ UNCHANGED <<fn, arg, calls, ret, res, process>>

\* UserAccess.c 248-251 and 310-313
CheckPebCapability ==
    /\ upc = "wk_capability"
    /\ IF IsNull(PebCapability(Walker))
       THEN ReturnFromWalker(FALSE)
       ELSE /\ upc' = "wk_peb"
            /\ UNCHANGED <<fn, arg, calls, stack, ret, res, process, frame>>
    /\ UNCHANGED <<image, caps, out, cnt, log>>
    /\ UNCHANGED editVars

\* UserAccess.c 256-261 and 318-323
GetWalkerPeb ==
    /\ upc = "wk_peb"
    /\ cnt' = NoteUse(cnt, ProcHeld)
    /\ \E Peb \in ReadOfObject(PebOf(Walker)) :
         IF ~Peb
         THEN ReturnFromWalker(FALSE)
         ELSE /\ upc' = "wk_attach"
              /\ frame' = [frame EXCEPT !.Peb = TRUE]
              /\ UNCHANGED <<fn, arg, calls, stack, ret, res, process>>
    /\ UNCHANGED <<image, caps, out, log>>
    /\ UNCHANGED editVars

\* How a use of the target ends: of a freed process it may fault, which
\* stops the machine.
UseOutcomes == IF process.freed THEN {"done", "bugcheck"} ELSE {"done"}

\* The machine stops inside the call.
Bugcheck ==
    /\ upc' = "bugcheck"
    /\ UNCHANGED <<fn, arg, calls, stack, ret, res, process, frame>>

\* UserAccess.c 263 and 325: attaching to a freed object may stop the
\* machine.
AttachToProcess ==
    /\ upc = "wk_attach"
    /\ \E Outcome \in UseOutcomes :
         /\ upc' = IF Outcome = "done" THEN "wk_ldr" ELSE "bugcheck"
         /\ cnt' = [NoteUse(cnt, ProcHeld) EXCEPT
                       !.attaches = @ + (IF Outcome = "done" THEN 1 ELSE 0)]
    /\ UNCHANGED <<process, image, caps, fn, stack, arg, frame, out, ret, res, log, calls>>
    /\ UNCHANGED editVars

\* UserAccess.c 265-276 and 327-338: Peb->Ldr, and the first List; what a
\* PEB taken from a freed object points to is anything.
ReadLoaderData ==
    /\ upc = "wk_ldr"
    /\ \E Ldr \in ReadOfObject(image.Ldr), N \in (IF process.freed THEN 0..MaxModules
                                                   ELSE {image.Modules}),
          Outcome \in UseOutcomes :
         IF Outcome = "bugcheck"
         THEN /\ cnt' = UseOfFreed(cnt)
              /\ Bugcheck
         ELSE IF ~Ldr
         THEN /\ cnt' = Detach(UseOfFreed(cnt))
              /\ ReturnFromWalker(FALSE)
         ELSE /\ cnt' = UseOfFreed(cnt)
              /\ frame' = [frame EXCEPT !.Ldr = TRUE, !.N = N, !.List = Flink(ListHead, N),
                                        !.Garbage = process.freed]
              /\ upc' = "wk_loop"
              /\ UNCHANGED <<fn, arg, calls, stack, ret, res, process>>
    /\ UNCHANGED <<image, caps, out, log>>
    /\ UNCHANGED editVars

\* UserAccess.c 276-288 and 338-371: one turn of the loop.
WalkList ==
    /\ upc = "wk_loop"
    /\ \E Outcome \in (IF frame.Garbage THEN {"done", "bugcheck"} ELSE {"done"}) :
         IF Outcome = "bugcheck"
         THEN /\ upc' = "bugcheck"
              /\ UNCHANGED <<log, frame>>
         ELSE IF frame.List # ListHead
         THEN /\ log' = Append(log, IF frame.Garbage THEN GarbageRecord
                                    ELSE ModuleRecord(Walker, frame.List))
              /\ frame' = [frame EXCEPT !.List = Flink(frame.List, frame.N)]
              /\ upc' = upc
         ELSE /\ upc' = "wk_detach"
              /\ UNCHANGED <<log, frame>>
    /\ UNCHANGED <<process, image, caps, fn, stack, arg, out, ret, res, cnt, calls>>
    /\ UNCHANGED editVars

\* UserAccess.c 290-292 and 373-375
DetachAndReturn ==
    /\ upc = "wk_detach"
    /\ cnt' = Detach(cnt)
    /\ ReturnFromWalker(TRUE)
    /\ UNCHANGED <<image, caps, out, log>>
    /\ UNCHANGED editVars

NextUser ==
    \/ ProcessExit
    \/ CallImagePath
    \/ CallGetPeb
    \/ LookupForHandle
    \/ OpenProcessObject
    \/ DereferenceAfterOpen
    \/ CheckQueryCapability
    \/ QueryBasicInformation
    \/ ProbeImageNameLength
    \/ CheckCapacity
    \/ AllocateScratch
    \/ QueryImageName
    \/ FillOutput
    \/ CallIsWow64Process
    \/ CallPrintLoadedModules
    \/ CallWalker
    \/ LookupInIsWow64
    \/ DereferenceInIsWow64
    \/ CheckArchitectureCapabilities
    \/ QueryWow64Process
    \/ QueryNativePeb
    \/ LookupInPrintLoadedModules
    \/ DereferenceInPrintLoadedModules
    \/ DetectArchitecture
    \/ SelectWalker
    \/ ReturnWalkerResult
    \/ CheckPebCapability
    \/ GetWalkerPeb
    \/ AttachToProcess
    \/ ReadLoaderData
    \/ WalkList
    \/ DetachAndReturn

(***************************************************************************)
(* The specifications: the command alone, and the driver routines alone.   *)
(***************************************************************************)
InitEdit == InitEditVars /\ IdleUser
SpecEdit == InitEdit /\ [][NextEdit]_vars

InitEditLong == InitEditLongVars /\ IdleUser
SpecEditLong == InitEditLong /\ [][NextEditLong]_vars

InitUser == InitUserVars /\ IdleEdit
SpecUser == InitUser /\ [][NextUser]_vars

(***************************************************************************)
(* Reading a command the way the command's syntax states it: the first     *)
(* section is the command, a pid marker is followed by its id, the first   *)
(* other section is the address and every further one is a value.          *)
(***************************************************************************)
RECURSIVE SyntaxRole(_, _)
SyntaxRole(Sections, i) ==
    IF i = 1 THEN "command"
    ELSE IF SyntaxRole(Sections, i - 1) = "marker" THEN "procid"
    ELSE IF Sections[i] = PidMarker THEN "marker"
    ELSE IF \E j \in 2..(i - 1) : SyntaxRole(Sections, j) = "address" THEN "value"
    ELSE "address"

PositionsOf(Sections, role) == { i \in 1..Len(Sections) : SyntaxRole(Sections, i) = role }

RECURSIVE SortedSeq(_)
SortedSeq(S) ==
    IF S = {} THEN <<>>
    ELSE LET m == CHOOSE x \in S : \A y \in S : x <= y
         IN <<m>> \o SortedSeq(S \ {m})

\* The value sections of a command, in the order they stand in it.
ValueSections(Sections) ==
    LET at == SortedSeq(PositionsOf(Sections, "value"))
    IN [k \in 1..Len(at) |-> Sections[at[k]]]

HexValueOf(Section) == ConvertStringToUInt64(Section).val
IsHexSection(Section, MaxDigits) == ConvertString(Section, MaxDigits).ok

Transmitted == ioctls # <<>>
ScanOver == pc \in {"loop", "allocate", "send", "returned"}

(***************************************************************************)
(* C1.  Whenever the request reaches the transport, the values it carries  *)
(* are the hex values of the command's value sections (every section after *)
(* the address that is neither a pid marker nor the id after one), in      *)
(* order, CountOf64Chunks is their number and FinalStructureSize is the    *)
(* header size plus 8 for each of them.                                    *)
(***************************************************************************)
C1_ValuesCarried ==
    Transmitted =>
        LET expected == ValueSections(SplittedCommand)
            sent == ioctls[1].InBuffer
        IN /\ sent.header.CountOf64Chunks = Len(expected)
           /\ sent.header.FinalStructureSize =
                  SIZEOF_DEBUGGER_EDIT_MEMORY + 8 * Len(expected)
           /\ Len(sent.slots) = Len(expected)
           /\ \A k \in 1..Len(expected) :
                  /\ IsHexSection(expected[k], 16)
                  /\ k <= Len(sent.slots)
                  /\ sent.slots[k] = HexValueOf(expected[k])

\* The sections the loop has read as values (those that reached e.cpp 126).
ReadAsValue(Sections) ==
    { i \in 2..Len(Sections) :
        LET before == ScanSections(Sections, i - 1)
        IN ~before.returned /\ SectionKind(before, Sections[i], Sections[1]) = "value" }

\* The most hex digits a value of the command's width has.
MaxDigitsOf(First) ==
    CASE First \in {KW_eb, KW_Peb} -> 2
      [] First \in {KW_ed, KW_Ped} -> 8
      [] First \in {KW_eq, KW_Peq} -> 16
      [] OTHER -> 0

IoctlFailed == "Ioctl failed with code"
WasShown(msg) == \E k \in 1..Len(locals.shown) : locals.shown[k] = msg
FailureShown == \E k \in 1..Len(locals.shown) : locals.shown[k] \notin {IoctlFailed, "HELP"}

C4_PidPair ==
    LET S == SplittedCommand
        markers == PositionsOf(S, "marker")
    IN /\ \A i \in markers :
            /\ (i < Len(S) /\ ~IsHexSection(S[i + 1], 8)) =>
                   pc = "returned" /\ locals.shown # <<>> /\ ~Transmitted
            /\ (i = size /\ pc \notin {"loop"}) =>
                   pc = "returned" /\ locals.shown # <<>> /\ ~Transmitted
       /\ \A i \in markers :
            (markers = {i} /\ i < Len(S) /\ IsHexSection(S[i + 1], 8)) =>
                /\ locals.ProcId = ConvertStringToUInt32(S[i + 1]).val
                /\ ~WasShown("please specify a correct hex prcoess id")
                /\ ~WasShown("please specify a correct hex value as the process id")
                /\ Transmitted => ioctls[1].InBuffer.header.ProcessId =
                                      ConvertStringToUInt32(S[i + 1]).val

(***************************************************************************)
(* C5.  Writing the address or a value with a hex notation in front        *)
(* and/or separators inside changes nothing: the scan of the command ends  *)
(* as the scan of the same command with the bare digits in that place.     *)
(***************************************************************************)
IsHexDigits(Section) ==
    Section # <<>> /\ \A k \in 1..Len(Section) : Section[k] \in HexChars

ScanOutcome(st) ==
    [ returned     |-> st.returned,
      SetAddress   |-> st.SetAddress,
      Address      |-> st.Address,
      SetValue     |-> st.SetValue,
      ValuesToEdit |-> st.ValuesToEdit ]

C5_NotationIgnored ==
    LET S == SplittedCommand
    IN (pc = "loop" \/ (pc = "returned" /\ ~Transmitted /\ locals.FinalSize = 0)) =>
         \A i \in PositionsOf(S, "address") \cup PositionsOf(S, "value") :
            LET bare == StripNotation(S[i])
                T == [S EXCEPT ![i] = bare]
            IN (bare # S[i] /\ IsHexDigits(bare)) =>
                 /\ ScanOutcome(ScanSections(S, Len(S))) = ScanOutcome(ScanSections(T, Len(S)))
                 /\ pc = "loop" => ScanOutcome(locals) = ScanOutcome(ScanSections(T, Len(S)))

(***************************************************************************)
(* The driver routines, as a caller sees a call.                           *)
(***************************************************************************)
Returned == upc = "idle" /\ ret # "none"

ResolvingEntryPoints ==
    {"UserAccessAllocateAndGetImagePathFromProcessId", "UserAccessGetPebFromProcessId",
     "UserAccessIsWow64Process", "UserAccessPrintLoadedModules"}

\* A walker ran in this call and has returned.
WalkerReturned ==
    \/ Returned /\ fn \in Walkers
    \/ upc = "pm_walked"
    \/ Returned /\ fn = "UserAccessPrintLoadedModules" /\ frame.wkProc # "none"

(***************************************************************************)
(* C6.  In the four entry points that resolve a process id, a reference    *)
(* acquired by a successful PsLookupProcessByProcessId is released exactly *)
(* once before the call returns, on every path; a failed lookup releases   *)
(* nothing.                                                                *)
(***************************************************************************)
C6_ReleasedOnce ==
    fn \in ResolvingEntryPoints =>
        /\ cnt.derefs <= cnt.lookups
        /\ Returned => cnt.derefs = cnt.lookups

(***************************************************************************)
(* C7.  In both walkers a detach never happens without an attach before    *)
(* it, a walker attaches at most once, it never returns while attached     *)
(* (it is in its walk, or the machine has stopped there),                  *)
(* and when it returns every attach has had its one detach; when the       *)
(* walker finds Peb->Ldr absent it returns FALSE, has emitted no record    *)
(* and has attached and detached exactly once; a walker whose process      *)
(* object was there finds Peb->Ldr absent exactly when it is.              *)
(***************************************************************************)
C7_AttachDetachPaired ==
    /\ cnt.detaches <= cnt.attaches
    /\ cnt.attaches <= 1
    /\ cnt.attaches > cnt.detaches => upc \in {"wk_ldr", "wk_loop", "wk_detach", "bugcheck"}
    /\ WalkerReturned =>
         /\ cnt.attaches = cnt.detaches
         /\ (frame.Peb /\ ~frame.Ldr) =>
               /\ ~frame.wkResult
               /\ log = <<>>
               /\ cnt.attaches = 1
               /\ cnt.detaches = 1
         /\ (frame.Peb /\ cnt.freedUse = 0) => frame.Ldr = image.Ldr
         /\ (Returned /\ ~frame.wkResult) => ret = "FALSE"

C7_Witness ==
    /\ WalkerReturned
    /\ Returned
    /\ frame.Peb
    /\ ~image.Ldr
    /\ ~frame.Ldr
    /\ cnt.freedUse = 0
    /\ cnt.attaches = 1
    /\ cnt.detaches = 1

(***************************************************************************)
(* C8.  Given a well-formed circular load-order list of N entries in a     *)
(* process whose object is there throughout, a walker (X64 and X86 alike)  *)
(* that has its capability and finds its PEB emits the records of entries  *)
(* 1..N in that order and nothing else, one per turn of its loop, each     *)
(* with the base, entry point, name and path of its entry, none for the    *)
(* list head, and returns TRUE; every turn of the loop emits one record    *)
(* and there are never more than N, so the walk ends; a second call emits  *)
(* the same sequence again.                                                *)
(***************************************************************************)
ExpectedRecords(W, N) == [ i \in 1..N |-> ModuleRecord(W, i) ]

WalkReached ==
    /\ caps[PebCapability(Walker)]
    /\ PebOf(Walker)
    /\ image.Ldr
    /\ cnt.freedUse = 0

C8_WalkEmitsModules ==
    /\ (upc \in {"wk_loop", "wk_detach"} /\ cnt.freedUse = 0) =>
          /\ frame.N = image.Modules
          /\ Len(log) <= frame.N
          /\ log = SubSeq(ExpectedRecords(Walker, frame.N), 1, Len(log))
          /\ frame.List = (IF Len(log) = frame.N THEN ListHead ELSE Len(log) + 1)
          /\ upc = "wk_detach" => Len(log) = frame.N
    /\ (WalkerReturned /\ WalkReached) =>
          /\ frame.wkResult
          /\ log = ExpectedRecords(Walker, image.Modules)
          /\ Returned => ret = "TRUE"

C8_Witness ==
    /\ Returned
    /\ WalkerReturned
    /\ WalkReached
    /\ Walker = "UserAccessPrintLoadedModulesX86"
    /\ calls = MaxCalls
    /\ image.Modules = MaxModules
    /\ Len(log) = MaxModules
    /\ ret = "TRUE"

(***************************************************************************)
(* C9.  UserAccessAllocateAndGetImagePathFromProcessId: with a declared    *)
(* capacity below the one the size probe asks for, the call returns FALSE, *)
(* allocates no output buffer and leaves ProcessImageName as it was; with  *)
(* a sufficient capacity and both queries successful it returns TRUE with  *)
(* a new output buffer of exactly the declared capacity that holds exactly *)
(* the path and zero in every further byte.  The second half is stated for *)
(* the calls whose output buffer the pool granted.                         *)
(***************************************************************************)
BothQueriesSucceeded ==
    frame.Buffer # <<>> /\ frame.Buffer[1].ImageName # <<>>

C9_CapacityContract ==
    (Returned /\ fn = "UserAccessAllocateAndGetImagePathFromProcessId") =>
        /\ (frame.ReturnedLength # 0 /\
            arg.Size < frame.ReturnedLength - SizeofUnicodeString) =>
               /\ ret = "FALSE"
               /\ cnt.outAllocs = 0
               /\ out.ProcessImageName = EntryOutputs.ProcessImageName
        /\ (BothQueriesSucceeded /\ cnt.outAllocs = 1) =>
               /\ ret = "TRUE"
               /\ out.ProcessImageName.Buffer # <<>>
               /\ out.ProcessImageName.Buffer[1].size = arg.Size
               /\ out.ProcessImageName.Buffer[1].bytes = ImagePathBytes
               /\ out.ProcessImageName.Length = Len(ImagePathBytes)

(***************************************************************************)
(* C10.  UserAccessIsWow64Process, for a process id that resolved: TRUE    *)
(* with Is32Bit = TRUE whenever the process has a WOW64 structure, TRUE    *)
(* with Is32Bit = FALSE when it has none and has a native PEB, FALSE when  *)
(* it has neither; on FALSE *Is32Bit is not written, on TRUE it is written *)
(* exactly once.  The classification is stated for the calls that find     *)
(* both capabilities of the kernel available.                              *)
(***************************************************************************)
C10_Classification ==
    (Returned /\ fn = "UserAccessIsWow64Process") =>
        /\ (cnt.lookups = 1 /\ caps["PsGetProcessWow64Process"] /\ caps["PsGetProcessPeb"]) =>
              /\ image.Wow64Process => (ret = "TRUE" /\ out.Is32Bit = "TRUE")
              /\ (~image.Wow64Process /\ image.Peb) => (ret = "TRUE" /\ out.Is32Bit = "FALSE")
              /\ (~image.Wow64Process /\ ~image.Peb) => ret = "FALSE"
        /\ ret = "FALSE" => (cnt.is32Writes = 0 /\ out.Is32Bit = EntryOutputs.Is32Bit)
        /\ ret = "TRUE" => cnt.is32Writes = 1

(***************************************************************************)
(* C11.  Whenever a buffer is handed to DeviceIoControl, the length passed *)
(* is the FinalStructureSize of the header in it and the length of the     *)
(* buffer, which is SIZEOF_DEBUGGER_EDIT_MEMORY + 8 x CountOf64Chunks; the *)
(* header is followed by exactly CountOf64Chunks slots of 8 bytes and slot *)
(* i holds the i-th value the scan queued, for byte, dword and qword       *)
(* commands alike.                                                         *)
(***************************************************************************)
C11_WireLayout ==
    \A n \in 1..Len(ioctls) :
        LET sent == ioctls[n].InBuffer
            queued == ScanSections(SplittedCommand, Len(SplittedCommand)).ValuesToEdit
        IN /\ ioctls[n].InBufferSize = sent.header.FinalStructureSize
           /\ sent.length = ioctls[n].InBufferSize
           /\ sent.header.FinalStructureSize =
                  SIZEOF_DEBUGGER_EDIT_MEMORY + 8 * sent.header.CountOf64Chunks
           /\ Len(sent.slots) = sent.header.CountOf64Chunks
           /\ sent.length = SIZEOF_DEBUGGER_EDIT_MEMORY + SizeofUINT64 * Len(sent.slots)
           /\ Len(queued) = sent.header.CountOf64Chunks
           /\ \A i \in 1..Len(queued) : sent.slots[i] = queued[i]
           /\ sent.header.ByteSize \in {"EDIT_BYTE", "EDIT_DWORD", "EDIT_QWORD"}

\* A byte command with two values of one byte each was sent.
C11_Witness ==
    /\ Transmitted
    /\ ioctls[1].InBuffer.header.ByteSize = "EDIT_BYTE"
    /\ ioctls[1].InBuffer.header.CountOf64Chunks = 2
    /\ ioctls[1].InBufferSize = SIZEOF_DEBUGGER_EDIT_MEMORY + 16
    /\ ioctls[1].InBuffer.slots = << HexValueOf(Digits2), HexValueOf(Digits2) >>

(***************************************************************************)
(* C12.  The first section alone fixes the memory type and the byte size   *)
(* of the request: eb, ed, eq give virtual memory with byte, dword, qword; *)
(* !eb, !ed, !eq give physical memory with byte, dword, qword; any other   *)
(* first section ends the command at once with nothing sent; no later      *)
(* section changes either field, and the request sent carries them.        *)
(***************************************************************************)
TargetSpaceOf(First) ==
    IF First[1] = "!" THEN "EDIT_PHYSICAL_MEMORY" ELSE "EDIT_VIRTUAL_MEMORY"

ElementWidthOf(First) ==
    CASE First[Len(First)] = "b" -> "EDIT_BYTE"
      [] First[Len(First)] = "d" -> "EDIT_DWORD"
      [] First[Len(First)] = "q" -> "EDIT_QWORD"

C12_FirstSectionDecides ==
    LET First == SplittedCommand[1]
    IN /\ (size > 2 /\ pc \notin {"entry", "command"}) =>
            IF First \in Keywords
            THEN /\ locals.EditMemoryRequest.MemoryType = TargetSpaceOf(First)
                 /\ locals.EditMemoryRequest.ByteSize = ElementWidthOf(First)
            ELSE /\ pc = "returned"
                 /\ Len(SplittedCommand) = 1
                 /\ locals.shown # <<>>
                 /\ ~Transmitted
                 /\ FinalBuffer = <<>>
       /\ Transmitted =>
            /\ First \in Keywords
            /\ ioctls[1].InBuffer.header.MemoryType = TargetSpaceOf(First)
            /\ ioctls[1].InBuffer.header.ByteSize = ElementWidthOf(First)

\* !eq with an address and two 16-digit values was sent.
C12_Witness ==
    /\ Transmitted
    /\ SplittedCommand[1] = KW_Peq
    /\ Len(SplittedCommand) = 4
    /\ SplittedCommand[4] = D_x16
    /\ ioctls[1].InBuffer.header.MemoryType = "EDIT_PHYSICAL_MEMORY"
    /\ ioctls[1].InBuffer.header.ByteSize = "EDIT_QWORD"
    /\ ioctls[1].InBuffer.header.CountOf64Chunks = 2

(***************************************************************************)
(* C13.  Every malformed command - too few sections, unknown command,      *)
(* invalid process id, invalid address, value wider than the element,      *)
(* value that is no hex number, no address, no value, pid marker without   *)
(* an id - shows the usage text of CommandEditMemoryHelp and sends         *)
(* nothing.  A command is refused as malformed when it ends with a message *)
(* other than those for the missing driver handle, the failed allocation   *)
(* and the failed DeviceIoControl; a command with an address or a value    *)
(* that is no hex number is never sent.                                    *)
(***************************************************************************)
NotAboutTheCommand ==
    { "Handle not found, probably the driver is not loaded.",
      "unable to allocate memory",
      IoctlFailed }

RefusedAsMalformed ==
    /\ pc = "returned"
    /\ locals.shown # <<>>
    /\ locals.shown[1] \notin NotAboutTheCommand

\* By the syntax of the command: its address or one of its values is no
\* hex number.
UnparsableOperand ==
    \E i \in PositionsOf(SplittedCommand, "address") \cup PositionsOf(SplittedCommand, "value") :
        ~IsHexSection(SplittedCommand[i], 16)

C13_MalformedShowsHelp ==
    /\ RefusedAsMalformed =>
          /\ WasShown("HELP")
          /\ ~Transmitted
    /\ UnparsableOperand => ~Transmitted

(***************************************************************************)
(* C14.  No routine calls through a capability pointer that is NULL: a     *)
(* routine stands at a call of g_ZwQueryInformationProcess,                *)
(* g_PsGetProcessPeb or g_PsGetProcessWow64Process only when that pointer  *)
(* is set, and a call of a routine whose capability is NULL, once past the *)
(* lookup, returns FALSE - the image path and PEB queries, the             *)
(* architecture detection, both walkers and the routine that runs them -   *)
(* for every process id and in a first and a later call alike.             *)
(***************************************************************************)
\* The capability the routine invokes in its next step, if any.
InvokedNext ==
    CASE upc \in {"gp_query", "ip_probe", "ip_query"} -> {"ZwQueryInformationProcess"}
      [] upc = "iw_wow64" -> {"PsGetProcessWow64Process"}
      [] upc = "iw_peb"   -> {"PsGetProcessPeb"}
      [] upc = "wk_peb"   -> {PebCapability(Walker)}
      [] OTHER -> {}

\* The capabilities a routine checks before it goes on.
NeededBy(routine) ==
    CASE routine \in {"UserAccessAllocateAndGetImagePathFromProcessId",
                      "UserAccessGetPebFromProcessId"} -> {"ZwQueryInformationProcess"}
      [] routine \in {"UserAccessIsWow64Process", "UserAccessPrintLoadedModules"} ->
             {"PsGetProcessWow64Process", "PsGetProcessPeb"}
      [] routine = "UserAccessPrintLoadedModulesX64" -> {"PsGetProcessPeb"}
      [] routine = "UserAccessPrintLoadedModulesX86" -> {"PsGetProcessWow64Process"}
      [] OTHER -> {}

C14_NoNullCapabilityCall ==
    /\ \A c \in InvokedNext : caps[c]
    /\ (Returned /\ \E c \in NeededBy(fn) : ~caps[c]) =>
          /\ ret = "FALSE"
          /\ cnt.scratchAllocs = 0
          /\ cnt.outAllocs = 0
          /\ cnt.attaches = 0
          /\ cnt.is32Writes = 0
          /\ log = <<>>
    /\ (WalkerReturned /\ ~caps[PebCapability(Walker)]) =>
          ~frame.wkResult /\ ~frame.Peb

\* A second call, of the native walker, has returned with its capability
\* missing, after the process was found.
C14_Witness ==
    /\ Returned
    /\ calls = MaxCalls
    /\ fn = "UserAccessPrintLoadedModulesX64"
    /\ ~caps["PsGetProcessPeb"]
    /\ caps["PsGetProcessWow64Process"]
    /\ image.Peb
    /\ ret = "FALSE"

(***************************************************************************)
(* C15.  A pid marker is honoured only the first time: once the loop has   *)
(* read one id after a marker, a later section pid is not taken for a      *)
(* marker again but read as the address or as a value, so the loop assigns *)
(* the process id from the command at most once.                           *)
(***************************************************************************)
\* Which branch of the loop section i of the command took (none once the
\* command has returned).
KindAt(Sections, i) ==
    LET before == ScanSections(Sections, i - 1)
    IN IF before.returned THEN "none"
       ELSE SectionKind(before, Sections[i], Sections[1])

\* The sections among the first n that the loop read as a process id and
\* accepted.
IdsAssigned(Sections, n) ==
    { i \in 2..n : KindAt(Sections, i) = "procid" /\ ~ScanSections(Sections, i).returned }

C15_PidHonouredOnce ==
    LET S == SplittedCommand
    IN /\ Cardinality(IdsAssigned(S, Len(S))) <= 1
       /\ \A j \in 2..Len(S) :
            (S[j] = PidMarker /\ IdsAssigned(S, j - 1) # {} /\ KindAt(S, j) # "none") =>
                KindAt(S, j) \in {"address", "value"}

(***************************************************************************)
(* C16.  In UserAccessAllocateAndGetImagePathFromProcessId the scratch     *)
(* buffer of the second query is freed exactly once before the call        *)
(* returns on every path that follows its allocation - after the query     *)
(* succeeded, also when the output allocation then fails, and after it     *)
(* failed - and is never freed when it was not allocated.                  *)
(***************************************************************************)
C16_ScratchFreedOnce ==
    fn = "UserAccessAllocateAndGetImagePathFromProcessId" =>
        /\ cnt.scratchFrees <= cnt.scratchAllocs
        /\ cnt.scratchAllocs <= 1
        /\ Returned => cnt.scratchFrees = cnt.scratchAllocs

(***************************************************************************)
(* C17.  Every return of FALSE leaves what the caller handed in as it was: *)
(* UserAccessAllocateAndGetImagePathFromProcessId leaves Length,           *)
(* MaximumLength and Buffer of ProcessImageName, UserAccessGetPebFrom-     *)
(* ProcessId leaves *Peb and UserAccessIsWow64Process leaves *Is32Bit,     *)
(* whichever step failed.                                                  *)
(***************************************************************************)
C17_FailureLeavesOutput ==
    (Returned /\ ret = "FALSE") =>
        /\ fn = "UserAccessAllocateAndGetImagePathFromProcessId" =>
              /\ out.ProcessImageName.Length = EntryOutputs.ProcessImageName.Length
              /\ out.ProcessImageName.MaximumLength = EntryOutputs.ProcessImageName.MaximumLength
              /\ out.ProcessImageName.Buffer = EntryOutputs.ProcessImageName.Buffer
        /\ fn = "UserAccessGetPebFromProcessId" => out.Peb = EntryOutputs.Peb
        /\ fn = "UserAccessIsWow64Process" => out.Is32Bit = EntryOutputs.Is32Bit

(***************************************************************************)
(* C18.  The wire buffer of a command is allocated at most once, is not    *)
(* changed after it was handed to DeviceIoControl, and is freed before the *)
(* command returns, whether the call succeeded or failed: no allocated     *)
(* wire buffer is left when the command has returned.                      *)
(***************************************************************************)
C18_WireBufferFreed ==
    /\ heap <= 1
    /\ (Transmitted /\ heap > 0) => FinalBuffer = << ioctls[1].InBuffer >>
    /\ pc = "returned" => heap = 0

(***************************************************************************)
(* C19.  In the two routines that open a handle to the process object,     *)
(* the handle ObOpenObjectByPointer gave is closed before the call returns *)
(* on every path after a successful open: between calls, after any         *)
(* sequence of calls, the driver holds no open process handle.             *)
(***************************************************************************)
C19_HandlesClosed ==
    upc = "idle" => res.handles = 0

(***************************************************************************)
(* C20.  In every request sent, ProcessId is the caller's own process id   *)
(* when the command has no pid pair, and the hex id after the marker when  *)
(* it has one, wherever the pair stands after the command word; the pair   *)
(* changes neither the address nor the values: they are those of the       *)
(* command without the pair.                                               *)
(***************************************************************************)
WithoutPair(Sections, i) ==
    SubSeq(Sections, 1, i - 1) \o SubSeq(Sections, i + 2, Len(Sections))

C20_ProcessIdOfRequest ==
    Transmitted =>
        LET S == SplittedCommand
            markers == PositionsOf(S, "marker")
            sent == ioctls[1].InBuffer
        IN /\ markers = {} => sent.header.ProcessId = CurrentProcessId
           /\ \A i \in markers :
                (markers = {i} /\ i < Len(S) /\ IsHexSection(S[i + 1], 8)) =>
                    LET T == WithoutPair(S, i)
                        alone == ScanSections(T, Len(T))
                    IN /\ sent.header.ProcessId = ConvertStringToUInt32(S[i + 1]).val
                       /\ ~alone.returned
                       /\ sent.header.Address = alone.Address
                       /\ sent.slots = alone.ValuesToEdit

(***************************************************************************)
(* C21.  No routine uses a process reference after releasing it: in        *)
(* UserAccessIsWow64Process and UserAccessPrintLoadedModules, and in the   *)
(* walker the latter calls with the same pointer, every use of the process *)
(* object - the WOW64 and PEB queries, KeStackAttachProcess, the list walk *)
(* - happens while the reference taken by the lookup is held, so that the  *)
(* object is never used with no reference held and never after it was      *)
(* freed by an exit of the target.                                         *)
(***************************************************************************)
C21_NoUseAfterRelease ==
    fn \in {"UserAccessIsWow64Process", "UserAccessPrintLoadedModules"} =>
        /\ cnt.derefdUse = 0
        /\ cnt.freedUse = 0
        /\ upc \in {"iw_wow64", "iw_peb"} => frame.iwHeld
        /\ upc \in {"wk_peb", "wk_attach", "wk_ldr", "wk_loop"} => frame.pmHeld

====
